---- MODULE Spec2Model ----
(***************************************************************************)
(* Model of the DocQA ingestion pipeline: the indexer entry points of      *)
(* vector_database.py (text_db_insetter, image_db_insetter) and the        *)
(* orchestrator of file_processer.py (process_all_files).                  *)
(*                                                                         *)
(* File names and paths are sequences of one-character strings, so that    *)
(* lower(), endswith() and os.path.basename() are computed, not assumed.   *)
(* Document contents and image paths of direct indexer calls are atomic    *)
(* strings: the code only tests the list for emptiness and copies them.    *)
(***************************************************************************)
EXTENDS Integers, Sequences, FiniteSets, TLC

VARIABLES store, lastCall, pc, dirExists, userEntries, cfg, files, idx, log, outcome

vars == <<store, lastCall, pc, dirExists, userEntries, cfg, files, idx, log, outcome>>

pipelineVars == <<pc, dirExists, userEntries, cfg, files, idx, log, outcome>>

(***************************************************************************)
(* Bounds                                                                  *)
(***************************************************************************)
MaxStore == 2

MaxTexts == 2

MaxPageNo == 1

MaxFiles == 2

MaxPages == 2

(***************************************************************************)
(* Strings as character sequences                                          *)
(***************************************************************************)
Lower(c) ==
  CASE c = "A" -> "a" [] c = "B" -> "b" [] c = "D" -> "d" [] c = "F" -> "f"
    [] c = "P" -> "p" [] c = "T" -> "t" [] c = "X" -> "x" [] c = "O" -> "o"
    [] c = "C" -> "c" [] OTHER -> c

LowerStr(s) == [k \in 1..Len(s) |-> Lower(s[k])]

EndsWith(s, suffix) ==
  /\ Len(s) >= Len(suffix)
  /\ SubSeq(s, Len(s) - Len(suffix) + 1, Len(s)) = suffix

Sep == "/"

LastSep(p) ==
  LET hits == {k \in 1..Len(p) : p[k] = Sep}
  IN IF hits = {} THEN 0 ELSE CHOOSE k \in hits : \A m \in hits : m <= k

BasenameKeepDir(p) == p

Basename(p) == SubSeq(p, LastSep(p) + 1, Len(p))

PathJoin(a, b) == IF a = <<>> \/ a[Len(a)] = Sep THEN a \o b ELSE a \o <<Sep>> \o b

(***************************************************************************)
(* Errors                                                                  *)
(***************************************************************************)
NoError == [type |-> "none", msg |-> "", cause |-> ""]

EmptyTextsError == [type |-> "ValueError", msg |-> "The texts list cannot be empty.", cause |-> ""]

EmptySummariesError == [type |-> "ValueError", msg |-> "The image summaries list cannot be empty.", cause |-> ""]

PageNoError == [type |-> "ValueError", msg |-> "Page number must be a positive integer.", cause |-> ""]

TextStoreError(e) ==
  [type |-> "Exception",
   msg |-> "An error occurred while adding documents to the vector database: ",
   cause |-> e]

ImageStoreError(e) ==
  [type |-> "Exception",
   msg |-> "An error occurred while adding documents to the vector database: ",
   cause |-> e]

(***************************************************************************)
(* Indexer: vector_database.py                                             *)
(***************************************************************************)
TextDocument(text, pdf_name, page_no) ==
  [page_content |-> text,
   metadata |-> [Source |-> Basename(pdf_name), PageNo |-> page_no, Type |-> "Text"]]

ImageDocumentNoPath(text, image_path, pdf_name, page_no) ==
  [page_content |-> text,
   metadata |-> [Source |-> Basename(pdf_name), PageNo |-> page_no, Type |-> "Image"]]

ImageDocument(text, image_path, pdf_name, page_no) ==
  [page_content |-> text,
   metadata |-> [Source |-> Basename(pdf_name), PageNo |-> page_no,
                 ImagePath |-> image_path, Type |-> "Image"]]

\* vector_db.add_documents is the external store: it either appends the
\* whole batch or raises the exception `add` and leaves the store alone.
AddOk == "ok"

add_documents(vector_db, documents, add) ==
  IF add = AddOk THEN [store |-> vector_db \o documents, raised |-> NoError]
  ELSE [store |-> vector_db, raised |-> [type |-> "StoreFailure", msg |-> "", cause |-> add]]

Rejected(vector_db, err) == [store |-> vector_db, handed |-> <<>>, raised |-> err]

text_db_insetter_page0(vector_db, texts, pdf_name, page_no, add) ==
  IF texts = <<>> THEN Rejected(vector_db, EmptyTextsError)
  ELSE IF page_no < 0 THEN Rejected(vector_db, PageNoError)
  ELSE
    LET documents == [k \in 1..Len(texts) |-> TextDocument(texts[k], pdf_name, page_no)]
        r == add_documents(vector_db, documents, add)
    IN [store |-> r.store,
        handed |-> <<documents>>,
        raised |-> IF r.raised = NoError THEN NoError ELSE TextStoreError(r.raised.cause)]

text_db_insetter(vector_db, texts, pdf_name, page_no, add) ==
  IF texts = <<>> THEN Rejected(vector_db, EmptyTextsError)
  ELSE IF page_no < 1 THEN Rejected(vector_db, PageNoError)
  ELSE
    LET documents == [k \in 1..Len(texts) |-> TextDocument(texts[k], pdf_name, page_no)]
        r == add_documents(vector_db, documents, add)
    IN [store |-> r.store,
        handed |-> <<documents>>,
        raised |-> IF r.raised = NoError THEN NoError ELSE TextStoreError(r.raised.cause)]

image_db_insetter(vector_db, image_summaries_texts, image_path, pdf_name, page_no, add) ==
  IF image_summaries_texts = <<>> THEN Rejected(vector_db, EmptySummariesError)
  ELSE IF page_no < 1 THEN Rejected(vector_db, PageNoError)
  ELSE
    LET documents == [k \in 1..Len(image_summaries_texts) |->
                        ImageDocument(image_summaries_texts[k], image_path, pdf_name, page_no)]
        r == add_documents(vector_db, documents, add)
    IN [store |-> r.store,
        handed |-> <<documents>>,
        raised |-> IF r.raised = NoError THEN NoError ELSE ImageStoreError(r.raised.cause)]

(***************************************************************************)
(* Direct calls of the two entry points with arbitrary arguments           *)
(***************************************************************************)
Contents == {"", "x"}

ContentLists == UNION {[1..n -> Contents] : n \in 0..MaxTexts}

SourceNames == {<<"d", "/", "a">>, <<"b">>}

PageNos == 0..MaxPageNo

ImagePaths == {"img/a_1_1.png"}

StoreFailures == {"store down", "timeout"}

AddOutcomes == {AddOk} \cup StoreFailures

NoCall ==
  [op |-> "none", texts |-> <<>>, image_path |-> "", pdf_name |-> <<>>, page_no |-> 0,
   handed |-> <<>>, raised |-> NoError]

IdleLog == <<>>

IndexerInit ==
  /\ store = <<>>
  /\ lastCall = NoCall
  /\ pc = "indexer"
  /\ dirExists = TRUE
  /\ userEntries = {}
  /\ cfg = [present |-> FALSE, value |-> <<>>]
  /\ files = <<>>
  /\ idx = 0
  /\ log = IdleLog
  /\ outcome = "running"

CallText ==
  /\ pc = "indexer"
  /\ \E texts \in ContentLists, pdf_name \in SourceNames, page_no \in PageNos, add \in AddOutcomes :
       /\ Len(store) + Len(texts) <= MaxStore
       /\ LET r == text_db_insetter(store, texts, pdf_name, page_no, add)
          IN /\ store' = r.store
             /\ lastCall' = [op |-> "text", texts |-> texts, image_path |-> "",
                             pdf_name |-> pdf_name, page_no |-> page_no,
                             handed |-> r.handed, raised |-> r.raised]
  /\ UNCHANGED pipelineVars

CallImage ==
  /\ pc = "indexer"
  /\ \E texts \in ContentLists, image_path \in ImagePaths, pdf_name \in SourceNames,
        page_no \in PageNos, add \in AddOutcomes :
       /\ Len(store) + Len(texts) <= MaxStore
       /\ LET r == image_db_insetter(store, texts, image_path, pdf_name, page_no, add)
          IN /\ store' = r.store
             /\ lastCall' = [op |-> "image", texts |-> texts, image_path |-> image_path,
                             pdf_name |-> pdf_name, page_no |-> page_no,
                             handed |-> r.handed, raised |-> r.raised]
  /\ UNCHANGED pipelineVars

IndexerNext == CallText \/ CallImage

IndexerSpec == IndexerInit /\ [][IndexerNext]_vars

(***************************************************************************)
(* Extractors (pdf_processing, txt_processing, word_processing): they are  *)
(* imported by file_processer.py and call the indexer once per batch.      *)
(* A file's content is its number of pages; every page carries one text    *)
(* chunk, and the first page of a PDF may carry one embedded image.        *)
(***************************************************************************)
DataFolder == <<"d">>

ExtractionError == [type |-> "Exception", msg |-> "cannot read file", cause |-> "corrupt"]

KeyError == [type |-> "KeyError", msg |-> "image_directory_name", cause |-> ""]

TextCall(file_path, page_no) ==
  [op |-> "text", texts |-> <<"x">>, image_path |-> <<>>, pdf_name |-> file_path, page_no |-> page_no]

ImageCall(file_path, output_folder, page_no) ==
  [op |-> "image", texts |-> <<"s">>,
   image_path |-> output_folder \o <<Sep>> \o Basename(file_path) \o <<"_", "1">>,
   pdf_name |-> file_path, page_no |-> page_no]

RECURSIVE PdfCalls(_, _, _, _)
PdfCalls(file_path, output_folder, pages, withImage) ==
  IF pages = 0 THEN <<>>
  ELSE PdfCalls(file_path, output_folder, pages - 1, withImage)
       \o <<TextCall(file_path, pages)>>
       \o (IF withImage /\ pages = 1 THEN <<ImageCall(file_path, output_folder, 1)>> ELSE <<>>)

InserterCall(vector_db, c, add) ==
  IF c.op = "text" THEN text_db_insetter(vector_db, c.texts, c.pdf_name, c.page_no, add)
  ELSE image_db_insetter(vector_db, c.texts, c.image_path, c.pdf_name, c.page_no, add)

\* Runs the inserter calls in order; the store raises at call number failAt
\* (0: never) and that exception leaves the extractor.
RECURSIVE RunCalls(_, _, _, _)
RunCalls(vector_db, calls, k, failAt) ==
  IF k > Len(calls) THEN [store |-> vector_db, raised |-> NoError]
  ELSE LET r == InserterCall(vector_db, calls[k], IF k = failAt THEN "store down" ELSE AddOk)
       IN IF r.raised # NoError THEN [store |-> r.store, raised |-> r.raised]
          ELSE RunCalls(r.store, calls, k + 1, failAt)

process_pdf(file_path, output_folder, vector_db, corrupt, pages, withImage, failAt) ==
  IF corrupt THEN [store |-> vector_db, raised |-> ExtractionError]
  ELSE RunCalls(vector_db, PdfCalls(file_path, output_folder, pages, withImage), 1, failAt)

process_text(file_path, vector_db, corrupt, failAt) ==
  IF corrupt THEN [store |-> vector_db, raised |-> ExtractionError]
  ELSE RunCalls(vector_db, <<TextCall(file_path, 1)>>, 1, failAt)

process_word_text(file_path, vector_db, corrupt, failAt) ==
  IF corrupt THEN [store |-> vector_db, raised |-> ExtractionError]
  ELSE RunCalls(vector_db, <<TextCall(file_path, 1)>>, 1, failAt)

(***************************************************************************)
(* Orchestrator: file_processer.py, process_all_files                      *)
(***************************************************************************)
DotPdf == <<".", "p", "d", "f">>

DotTxt == <<".", "t", "x", "t">>

DotDocx == <<".", "d", "o", "c", "x">>

DefaultImageDir ==
  <<"e", "x", "t", "r", "a", "c", "t", "e", "d", "_", "i", "m", "a", "g", "e", "s">>

CurDir == <<".">>

\* Names of the entries a user may have put into the data folder.
UserNames ==
  { <<"a", ".", "p", "d", "f">>,
    <<"B", ".", "P", "D", "F">>,
    <<"n", ".", "t", "x", "t">>,
    <<"w", ".", "D", "o", "c", "x">>,
    <<"r", ".", "x", "y", "z">> }

\* Values of config["settings"]["image_directory_name"]; present = FALSE is
\* a settings section without the key.
ConfigValues ==
  { [present |-> FALSE, value |-> <<>>],
    [present |-> TRUE, value |-> <<>>],
    [present |-> TRUE, value |-> DefaultImageDir],
    [present |-> TRUE, value |-> <<"i", "m", "g">>],
    [present |-> TRUE, value |-> <<"i", ".", "p", "d", "f">>],
    [present |-> TRUE, value |-> CurDir] }

\* config["settings"].get("image_directory_name", "extracted_images") or "extracted_images"
ExtractedImagesFoldername(c) ==
  IF ~c.present \/ c.value = <<>> THEN DefaultImageDir ELSE c.value

OutputFolder(c) == PathJoin(DataFolder, ExtractedImagesFoldername(c))

\* os.makedirs(output_folder, exist_ok=True) followed by os.listdir(data_folder):
\* the image folder is an entry of the data folder, unless its name is "."
ListedEntries(entries, c) ==
  IF ExtractedImagesFoldername(c) = CurDir THEN entries
  ELSE entries \cup {ExtractedImagesFoldername(c)}

Orderings(S) ==
  {f \in [1..Cardinality(S) -> S] : \A a, b \in 1..Cardinality(S) : a # b => f[a] # f[b]}

Event(kind, filename) == [kind |-> kind, file |-> filename]

except_clause_reraise(lg, filename, e, i) ==
  [log |-> lg, idx |-> i, pc |-> "done", outcome |-> "raised"]

except_clause(lg, filename, e, i) ==
  [log |-> Append(lg, Event("error", filename)), idx |-> i + 1, pc |-> "loop", outcome |-> "running"]

\* What the loop body does once the extractor of `filename` has returned or raised.
AfterExtractor(kind, filename, r) ==
  LET lg1 == Append(log, Event(kind, filename))
      n == IF r.raised = NoError
           THEN [log |-> Append(lg1, Event("processed", filename)), idx |-> idx + 1,
                 pc |-> "loop", outcome |-> "running"]
           ELSE except_clause(lg1, filename, r.raised, idx)
  IN /\ store' = r.store
     /\ log' = n.log
     /\ idx' = n.idx
     /\ pc' = n.pc
     /\ outcome' = n.outcome
     /\ UNCHANGED <<lastCall, dirExists, userEntries, cfg, files>>

Init ==
  /\ store = <<>>
  /\ lastCall = NoCall
  /\ pc = "start"
  /\ dirExists \in BOOLEAN
  /\ userEntries \in {S \in SUBSET UserNames : Cardinality(S) <= MaxFiles /\ (~dirExists => S = {})}
  /\ cfg \in ConfigValues
  /\ files = <<>>
  /\ idx = 0
  /\ log = <<>>
  /\ outcome = "running"

NotFound ==
  /\ pc = "start"
  /\ ~dirExists
  /\ log' = Append(log, Event("err_notfound", DataFolder))
  /\ pc' = "done"
  /\ outcome' = "returned"
  /\ UNCHANGED <<store, lastCall, dirExists, userEntries, cfg, files, idx>>

NoFiles ==
  /\ pc = "start"
  /\ dirExists
  /\ ListedEntries(userEntries, cfg) = {}
  /\ files' = <<>>
  /\ log' = Append(log, Event("warn_nofiles", DataFolder))
  /\ pc' = "done"
  /\ outcome' = "returned"
  /\ UNCHANGED <<store, lastCall, dirExists, userEntries, cfg, idx>>

EnterLoop ==
  /\ pc = "start"
  /\ dirExists
  /\ ListedEntries(userEntries, cfg) # {}
  /\ files' \in Orderings(ListedEntries(userEntries, cfg))
  /\ idx' = 1
  /\ pc' = "loop"
  /\ UNCHANGED <<store, lastCall, dirExists, userEntries, cfg, log, outcome>>

IsDirectory(filename) == filename \notin userEntries

DispatchPdf ==
  /\ pc = "loop"
  /\ idx <= Len(files)
  /\ EndsWith(LowerStr(files[idx]), DotPdf)
  /\ \E corrupt \in BOOLEAN, pages \in 0..MaxPages, withImage \in BOOLEAN, failAt \in 0..(MaxPages + 1) :
       /\ IsDirectory(files[idx]) => corrupt
       /\ corrupt => (pages = 0 /\ ~withImage /\ failAt = 0)
       /\ failAt <= Len(PdfCalls(<<>>, <<>>, pages, withImage))
       /\ AfterExtractor("process_pdf", files[idx],
                         process_pdf(PathJoin(DataFolder, files[idx]), OutputFolder(cfg), store,
                                     corrupt, pages, withImage, failAt))

DispatchTxt ==
  /\ pc = "loop"
  /\ idx <= Len(files)
  /\ ~EndsWith(LowerStr(files[idx]), DotPdf)
  /\ EndsWith(LowerStr(files[idx]), DotTxt)
  /\ \E corrupt \in BOOLEAN, failAt \in 0..1 :
       /\ corrupt => failAt = 0
       /\ AfterExtractor("process_text", files[idx],
                         process_text(PathJoin(DataFolder, files[idx]), store, corrupt, failAt))

DispatchDocx ==
  /\ pc = "loop"
  /\ idx <= Len(files)
  /\ ~EndsWith(LowerStr(files[idx]), DotPdf)
  /\ ~EndsWith(LowerStr(files[idx]), DotTxt)
  /\ EndsWith(LowerStr(files[idx]), DotDocx)
  /\ \E corrupt \in BOOLEAN, failAt \in 0..1 :
       /\ corrupt => failAt = 0
       /\ AfterExtractor("process_word_text", files[idx],
                         process_word_text(PathJoin(DataFolder, files[idx]), store, corrupt, failAt))

\* The else branch: config["settings"]["image_directory_name"] != filename
ElseBranch ==
  /\ pc = "loop"
  /\ idx <= Len(files)
  /\ ~EndsWith(LowerStr(files[idx]), DotPdf)
  /\ ~EndsWith(LowerStr(files[idx]), DotTxt)
  /\ ~EndsWith(LowerStr(files[idx]), DotDocx)
  /\ LET n == IF ~cfg.present THEN except_clause(log, files[idx], KeyError, idx)
              ELSE IF cfg.value # files[idx]
                   THEN [log |-> Append(log, Event("warn_unsupported", files[idx])),
                         idx |-> idx + 1, pc |-> "loop", outcome |-> "running"]
                   ELSE [log |-> log, idx |-> idx + 1, pc |-> "loop", outcome |-> "running"]
     IN /\ log' = n.log
        /\ idx' = n.idx
        /\ pc' = n.pc
        /\ outcome' = n.outcome
  /\ UNCHANGED <<store, lastCall, dirExists, userEntries, cfg, files>>

AllProcessed ==
  /\ pc = "loop"
  /\ idx > Len(files)
  /\ log' = Append(log, Event("all_done", DataFolder))
  /\ pc' = "done"
  /\ outcome' = "returned"
  /\ UNCHANGED <<store, lastCall, dirExists, userEntries, cfg, files, idx>>

Next ==
  \/ NotFound
  \/ NoFiles
  \/ EnterLoop
  \/ DispatchPdf
  \/ DispatchTxt
  \/ DispatchDocx
  \/ ElseBranch
  \/ AllProcessed

Spec == Init /\ [][Next]_vars

(***************************************************************************)
(* Properties                                                              *)
(***************************************************************************)
Count(kind, filename) == Cardinality({k \in 1..Len(log) : log[k] = Event(kind, filename)})

DocsFrom(filename) == {k \in 1..Len(store) : store[k].metadata.Source = filename}

Extractors == {"process_pdf", "process_text", "process_word_text"}

Dispatches(filename) == {h \in Extractors : Count(h, filename) > 0}

ExpectedExtractor(filename) ==
  IF EndsWith(LowerStr(filename), DotPdf) THEN {"process_pdf"}
  ELSE IF EndsWith(LowerStr(filename), DotTxt) THEN {"process_text"}
  ELSE IF EndsWith(LowerStr(filename), DotDocx) THEN {"process_word_text"}
  ELSE {}

Handled == {j \in 1..Len(files) : j < idx}

\* C1: an exception raised by an extractor is caught inside the loop: the
\* batch call never raises, and once it has returned every listed entry with
\* a supported extension has been dispatched to its extractor exactly once,
\* including the entries that follow a failing one.
C1_FailureIsolated ==
  /\ outcome # "raised"
  /\ (pc = "done" /\ dirExists) =>
       /\ outcome = "returned"
       /\ \A j \in 1..Len(files) :
            \A h \in ExpectedExtractor(files[j]) : Count(h, files[j]) = 1

C1_Witness ==
  /\ pc = "done"
  /\ outcome = "returned"
  /\ \E j \in 1..Len(files) :
       /\ j < Len(files)
       /\ Count("error", files[j]) = 1
       /\ Dispatches(files[j]) # {}
       /\ Dispatches(files[j + 1]) # {}
       /\ Count("processed", files[j + 1]) = 1

\* C2 (as claimed): once the run has finished, the store holds no document
\* whose Source is a file whose processing ended in a caught error.
C2_NoPartialState ==
  pc = "done" =>
    \A j \in 1..Len(files) : Count("error", files[j]) > 0 => DocsFrom(files[j]) = {}

\* C3: a call with an empty content list or with page_no < 1 raises a
\* ValueError, never reaches add_documents, and leaves the store unchanged.
C3_RejectedBeforeStore ==
  [][(lastCall'.texts = <<>> \/ lastCall'.page_no < 1) =>
       /\ lastCall'.raised.type = "ValueError"
       /\ lastCall'.handed = <<>>
       /\ store' = store]_vars

C3_Witness ==
  /\ lastCall.op = "text"
  /\ lastCall.texts # <<>>
  /\ lastCall.page_no < 1
  /\ lastCall.raised.type = "ValueError"
  /\ store # <<>>

\* C4 (as claimed): processing an existing directory without entries makes
\* no store insertion, reports the 'No files found' warning and returns.
C4_EmptyDirWarns ==
  (pc = "done" /\ dirExists /\ userEntries = {}) =>
    /\ store = <<>>
    /\ Count("warn_nofiles", DataFolder) = 1
    /\ outcome = "returned"

\* C5 (as claimed): no document with empty page_content is ever handed to
\* add_documents.
C5_ContentNeverEmpty ==
  \A b \in 1..Len(lastCall.handed) :
    \A k \in 1..Len(lastCall.handed[b]) : lastCall.handed[b][k].page_content # ""

\* C6 (as claimed): the error raised when the store fails during a text
\* insertion differs from the error raised when it fails, with the same
\* cause, during an image insertion.
C6_OperationIdentified ==
  [][(/\ lastCall.raised.type = "Exception"
      /\ lastCall'.raised.type = "Exception"
      /\ lastCall.op # lastCall'.op
      /\ lastCall.raised.cause = lastCall'.raised.cause)
     => lastCall'.raised # lastCall.raised]_vars

\* C7: every stored document has PageNo >= 1, Type "Text" or "Image", and
\* an ImagePath key exactly when its Type is "Image".
C7_MetadataShape ==
  \A k \in 1..Len(store) :
    LET m == store[k].metadata
    IN /\ m.PageNo >= 1
       /\ m.Type \in {"Text", "Image"}
       /\ ("ImagePath" \in DOMAIN m) <=> (m.Type = "Image")

C7_Witness ==
  /\ \E k \in 1..Len(store) : store[k].metadata.Type = "Image"
  /\ \E k \in 1..Len(store) : store[k].metadata.Type = "Text"
  /\ lastCall.raised.type = "ValueError"

\* C8 (as claimed): every handled entry went to exactly the extractor of its
\* extension; an entry with another extension, other than the image-output
\* subdirectory, went to no extractor, left no document in the store and
\* produced exactly one 'Unsupported file type' warning.
C8_ClassifiedByExtension ==
  \A j \in Handled :
    /\ ExpectedExtractor(files[j]) # {} => Dispatches(files[j]) = ExpectedExtractor(files[j])
    /\ (ExpectedExtractor(files[j]) = {} /\ files[j] # ExtractedImagesFoldername(cfg)) =>
         /\ Dispatches(files[j]) = {}
         /\ DocsFrom(files[j]) = {}
         /\ Count("warn_unsupported", files[j]) = 1

\* C9 (as claimed): the image-output subdirectory is skipped silently: it
\* is passed to no extractor and produces neither a warning nor an error.
C9_ImageDirSkipped ==
  \A j \in Handled :
    (files[j] = ExtractedImagesFoldername(cfg) /\ IsDirectory(files[j])) =>
      /\ Dispatches(files[j]) = {}
      /\ Count("warn_unsupported", files[j]) = 0
      /\ Count("error", files[j]) = 0

IsBaseNameOf(src, name) ==
  /\ \A k \in 1..Len(src) : src[k] # Sep
  /\ Len(src) <= Len(name)
  /\ SubSeq(name, Len(name) - Len(src) + 1, Len(name)) = src
  /\ (Len(src) < Len(name) => name[Len(name) - Len(src)] = Sep)

\* C10: a call that passes validation hands the store, in one add_documents
\* call, one document per input string, in input order, with that string as
\* page_content and Source (base name), PageNo, Type and, for images,
\* ImagePath taken from the arguments; a successful call appends exactly
\* these documents, and no call removes or changes a stored document.
C10_OneDocumentPerString ==
  [][/\ Len(store') >= Len(store)
     /\ SubSeq(store', 1, Len(store)) = store
     /\ (lastCall'.texts # <<>> /\ lastCall'.page_no >= 1) =>
          /\ Len(lastCall'.handed) = 1
          /\ Len(lastCall'.handed[1]) = Len(lastCall'.texts)
          /\ \A k \in 1..Len(lastCall'.texts) :
               LET d == lastCall'.handed[1][k]
               IN /\ d.page_content = lastCall'.texts[k]
                  /\ IsBaseNameOf(d.metadata.Source, lastCall'.pdf_name)
                  /\ d.metadata.PageNo = lastCall'.page_no
                  /\ d.metadata.Type = (IF lastCall'.op = "text" THEN "Text" ELSE "Image")
                  /\ lastCall'.op = "image" => d.metadata.ImagePath = lastCall'.image_path
          /\ lastCall'.raised = NoError => store' = store \o lastCall'.handed[1]
          /\ lastCall'.raised # NoError => store' = store]_vars

C10_Witness ==
  /\ lastCall.op = "image"
  /\ Len(lastCall.texts) = 2
  /\ lastCall.texts[1] # lastCall.texts[2]
  /\ lastCall.raised = NoError
  /\ LastSep(lastCall.pdf_name) > 0
  /\ Len(store) = 2

====
